---- MODULE Spec2Model ----
(***************************************************************************)
(* Entity synchronisation between the main world and the render world      *)
(* (crates/bevy_render/src/world_sync.rs).                                 *)
(*                                                                         *)
(* Main-world entities carry the SyncRenderWorld tag and the RenderEntity  *)
(* forward link; render-world entities carry the MainEntity back link and  *)
(* the RenderFlyEntity marker.  Two observers append EntityRecords to the  *)
(* PendingSyncEntity resource; entity_sync_system drains it once per cycle *)
(* and despawn_fly_entity then despawns the fly entities.                  *)
(*                                                                         *)
(* Entity ids are generational in the stores, so an id is never handed out *)
(* twice: both stores allocate ids from a counter.                         *)
(***************************************************************************)
EXTENDS Integers, Sequences, FiniteSets, TLC

\* Bounds of the model.
MaxMain == 2
MaxRender == 2
MaxQueue == 2
MaxHist == 5
MaxVal == 2
MaxVec == 3

\* Absent component / Option::None.
None == 0

MainIds == 1..MaxMain
RenderIds == 1..MaxRender

VARIABLES
    mainAlive,      \* live main-world entities
    nextMain,       \* next main-world id to allocate
    tagged,         \* main entities carrying SyncRenderWorld
    renderEntity,   \* main id -> RenderEntity component (render id or None)
    renderAlive,    \* live render-world entities
    nextRender,     \* next render-world id to allocate
    mainEntity,     \* render id -> MainEntity component (main id or None)
    fly,            \* render entities carrying RenderFlyEntity
    parent,         \* render id -> Parent component (render id or None)
    pending,        \* PendingSyncEntity.records
    pendingPresent, \* PendingSyncEntity is in the main world (not in a resource_scope)
    pc,             \* "idle" | "apply" | "synced" | "reap"
    drain,          \* records the pending.drain(..) iterator still holds
    local,          \* despawn_fly_entity's Local<Vec<Entity>>
    snapshot,       \* history: the queue as entity_sync_system found it
    applied,        \* history: records applied this cycle, with their outcome
    reaped,         \* history: ids handed to world.despawn by the reaper this cycle
    created,        \* history: main id -> number of render entities spawned for it
    hist,           \* history: operations since construction (saturates)
    set,            \* SortedVecSet: the SmallVec self.0
    arg,            \* the argument of the call: other.0, vec, or <<index>>
    iSelf,          \* union_with: let mut i (index into self.0)
    jOther,         \* union_with: let mut j (index into other.0)
    setPc,          \* "ready" | "union" (first while) | "push" (second while)
    method,         \* history: the last SortedVecSet method called
    before          \* history: self.0 when that method was called

vars == <<mainAlive, nextMain, tagged, renderEntity, renderAlive, nextRender,
          mainEntity, fly, parent, pending, pendingPresent, pc, drain, local,
          snapshot, applied, reaped, created, hist,
          set, arg, iSelf, jOther, setPc, method, before>>

mainVars == <<mainAlive, nextMain, tagged, renderEntity>>
renderVars == <<renderAlive, nextRender, mainEntity, fly, parent>>
sysVars == <<pendingPresent, pc, drain, local, snapshot, applied, reaped, created>>
syncVars == <<mainVars, renderVars, sysVars, pending, hist>>
setVars == <<set, arg, iSelf, jOther, setPc, method, before>>

\* EntityRecord::Added(main entity), EntityRecord::Removed(render entity)
Added(e) == [kind |-> "Added", e |-> e]
Removed(e) == [kind |-> "Removed", e |-> e]

----------------------------------------------------------------------------
\* History of operations, kept up to MaxHist entries and then forgotten.
Overflow == <<[op |-> "more", e |-> None]>>

Logged(op, e) ==
    IF hist = Overflow \/ Len(hist) >= MaxHist
    THEN Overflow
    ELSE Append(hist, [op |-> op, e |-> e])

Op(op, e) == [op |-> op, e |-> e]

----------------------------------------------------------------------------
Init ==
    /\ mainAlive = {}
    /\ nextMain = 1
    /\ tagged = {}
    /\ renderEntity = [e \in MainIds |-> None]
    /\ renderAlive = {}
    /\ nextRender = 1
    /\ mainEntity = [s \in RenderIds |-> None]
    /\ fly = {}
    /\ parent = [s \in RenderIds |-> None]
    /\ pending = <<>>
    /\ pendingPresent = TRUE
    /\ pc = "idle"
    /\ drain = <<>>
    /\ local = <<>>
    /\ snapshot = <<>>
    /\ applied = <<>>
    /\ reaped = <<>>
    /\ created = [e \in MainIds |-> 0]
    /\ hist = <<>>
    /\ set = <<>>
    /\ arg = <<>>
    /\ iSelf = 0
    /\ jOther = 0
    /\ setPc = "ready"
    /\ method = "new"
    /\ before = <<>>

----------------------------------------------------------------------------
\* Observers registered by WorldSyncPlugin::build.

\* Mutant of OnAddObserver: the record goes to the front (insert(0, ..)).
OnAddObserverFront(q, e) == <<Added(e)>> \o q

\* Trigger<OnAdd, SyncRenderWorld>: pending.push(Added(entity))
OnAddObserver(q, e) == Append(q, Added(e))

\* Trigger<OnRemove, SyncRenderWorld>: push Removed(render id) only when the
\* Query<&RenderEntity> finds a forward link on the entity.
OnRemoveObserver(q, e) ==
    IF renderEntity[e] # None
    THEN Append(q, Removed(renderEntity[e]))
    ELSE q

----------------------------------------------------------------------------
\* Main-world mutations (capture phase).

SpawnMain ==
    /\ pc = "idle"
    /\ nextMain <= MaxMain
    /\ mainAlive' = mainAlive \cup {nextMain}
    /\ nextMain' = nextMain + 1
    /\ hist' = Logged("Spawn", nextMain)
    /\ UNCHANGED <<tagged, renderEntity, pending>>
    /\ UNCHANGED renderVars
    /\ UNCHANGED sysVars
    /\ UNCHANGED setVars

AttachTag(e) ==
    /\ pc = "idle"
    /\ e \in mainAlive \ tagged
    /\ Len(pending) < MaxQueue
    /\ tagged' = tagged \cup {e}
    /\ pending' = OnAddObserver(pending, e)
    /\ hist' = Logged("Attach", e)
    /\ UNCHANGED <<mainAlive, nextMain, renderEntity>>
    /\ UNCHANGED renderVars
    /\ UNCHANGED sysVars
    /\ UNCHANGED setVars

DetachTag(e) ==
    /\ pc = "idle"
    /\ e \in tagged
    /\ Len(pending) < MaxQueue
    /\ tagged' = tagged \ {e}
    /\ pending' = OnRemoveObserver(pending, e)
    /\ hist' = Logged("Detach", e)
    /\ UNCHANGED <<mainAlive, nextMain, renderEntity>>
    /\ UNCHANGED renderVars
    /\ UNCHANGED sysVars
    /\ UNCHANGED setVars

\* Despawning a main entity removes its components: OnRemove fires for a
\* tagged entity before the entity goes.
DespawnMain(e) ==
    /\ pc = "idle"
    /\ e \in mainAlive
    /\ Len(pending) < MaxQueue
    /\ pending' = IF e \in tagged THEN OnRemoveObserver(pending, e) ELSE pending
    /\ mainAlive' = mainAlive \ {e}
    /\ tagged' = tagged \ {e}
    /\ renderEntity' = [renderEntity EXCEPT ![e] = None]
    /\ hist' = Logged("Despawn", e)
    /\ UNCHANGED nextMain
    /\ UNCHANGED renderVars
    /\ UNCHANGED sysVars
    /\ UNCHANGED setVars

----------------------------------------------------------------------------
\* Render-world mutations made by other render systems.

\* The entity and everything below it in the hierarchy (despawn_recursive).
RECURSIVE Closure(_)
Closure(S) ==
    LET next == S \cup {c \in renderAlive : parent[c] \in S}
    IN IF next = S THEN S ELSE Closure(next)

Descendants(s) == Closure({s})

\* Components of despawned entities are dropped.
Cleared(f, gone) == [s \in RenderIds |-> IF s \in gone THEN None ELSE f[s]]

SpawnRender(par) ==
    /\ pc = "idle"
    /\ nextRender <= MaxRender
    /\ par \in renderAlive \cup {None}
    /\ renderAlive' = renderAlive \cup {nextRender}
    /\ parent' = [parent EXCEPT ![nextRender] = par]
    /\ nextRender' = nextRender + 1
    /\ hist' = Logged("SpawnRender", nextRender)
    /\ UNCHANGED <<mainEntity, fly, pending>>
    /\ UNCHANGED mainVars
    /\ UNCHANGED sysVars
    /\ UNCHANGED setVars

MarkFly(s) ==
    /\ pc = "idle"
    /\ s \in renderAlive \ fly
    /\ fly' = fly \cup {s}
    /\ hist' = Logged("MarkFly", s)
    /\ UNCHANGED <<renderAlive, nextRender, mainEntity, parent, pending>>
    /\ UNCHANGED mainVars
    /\ UNCHANGED sysVars
    /\ UNCHANGED setVars

\* A direct world.despawn(s) in the render world, unrelated to the sync.
DirectDespawn(s) ==
    /\ pc = "idle"
    /\ s \in renderAlive
    /\ renderAlive' = renderAlive \ {s}
    /\ mainEntity' = Cleared(mainEntity, {s})
    /\ parent' = Cleared(parent, {s})
    /\ fly' = fly \ {s}
    /\ hist' = Logged("DirectDespawn", s)
    /\ UNCHANGED <<nextRender, pending>>
    /\ UNCHANGED mainVars
    /\ UNCHANGED sysVars
    /\ UNCHANGED setVars

----------------------------------------------------------------------------
\* entity_sync_system: main_world.resource_scope(|world, pending| for record
\* in pending.drain(..) { ... }).

NumAdded(q) == Cardinality({i \in 1..Len(q) : q[i].kind = "Added"})

\* Mutant of SyncBegin: the records are iterated (pending.iter()) and stay
\* in the Vec.
SyncBeginIter ==
    /\ pc = "idle"
    /\ nextRender + NumAdded(pending) <= MaxRender + 1
    /\ pendingPresent' = FALSE
    /\ drain' = pending
    /\ snapshot' = pending
    /\ applied' = <<>>
    /\ pc' = "apply"
    /\ UNCHANGED <<pending, local, reaped, created, hist>>
    /\ UNCHANGED mainVars
    /\ UNCHANGED renderVars
    /\ UNCHANGED setVars

\* resource_scope takes PendingSyncEntity out of the main world and
\* pending.drain(..) takes every record out of the Vec.
SyncBegin ==
    /\ pc = "idle"
    /\ nextRender + NumAdded(pending) <= MaxRender + 1
    /\ pendingPresent' = FALSE
    /\ drain' = pending
    /\ pending' = <<>>
    /\ snapshot' = pending
    /\ applied' = <<>>
    /\ pc' = "apply"
    /\ UNCHANGED <<local, reaped, created, hist>>
    /\ UNCHANGED mainVars
    /\ UNCHANGED renderVars
    /\ UNCHANGED setVars

\* Mutant of DrainNext: the records are taken from the back (pop / rev).
DrainNextRev(d) == [rec |-> d[Len(d)], rest |-> SubSeq(d, 1, Len(d) - 1)]

\* The iterator yields the records front to back.
DrainNext(d) == [rec |-> Head(d), rest |-> Tail(d)]

Outcome(rec, what) == Append(applied, [rec |-> rec, outcome |-> what])

\* Mutant of ApplyAdded: the Entry::Occupied arm is missing, a render entity
\* is spawned and the link overwritten whenever the main entity is alive.
ApplyAddedNoEntry(e) ==
    /\ pc' = "apply"
    /\ IF e \in mainAlive
       THEN /\ renderAlive' = renderAlive \cup {nextRender}
            /\ mainEntity' = [mainEntity EXCEPT ![nextRender] = e]
            /\ nextRender' = nextRender + 1
            /\ renderEntity' = [renderEntity EXCEPT ![e] = nextRender]
            /\ applied' = Outcome(Added(e), "spawned")
            /\ created' = [created EXCEPT ![e] = @ + 1]
            /\ UNCHANGED <<fly, parent>>
       ELSE /\ applied' = Outcome(Added(e), "missing")
            /\ UNCHANGED <<renderEntity, created>>
            /\ UNCHANGED renderVars

\* Mutant of ApplyAdded: the main entity is not looked up before the render
\* entity is spawned; the link is inserted only when the entity exists.
ApplyAddedSpawnFirst(e) ==
    /\ pc' = "apply"
    /\ IF renderEntity[e] = None
       THEN /\ renderAlive' = renderAlive \cup {nextRender}
            /\ mainEntity' = [mainEntity EXCEPT ![nextRender] = e]
            /\ nextRender' = nextRender + 1
            /\ renderEntity' = IF e \in mainAlive
                               THEN [renderEntity EXCEPT ![e] = nextRender]
                               ELSE renderEntity
            /\ applied' = Outcome(Added(e),
                            IF e \in mainAlive THEN "spawned" ELSE "missing")
            /\ created' = [created EXCEPT ![e] = @ + 1]
            /\ UNCHANGED <<fly, parent>>
       ELSE /\ applied' = Outcome(Added(e), "occupied")
            /\ UNCHANGED <<renderEntity, created>>
            /\ UNCHANGED renderVars

\* Mutant of ApplyAdded: entry.insert(RenderEntity(id)) is missing.
ApplyAddedNoLink(e) ==
    /\ pc' = "apply"
    /\ IF e \in mainAlive /\ renderEntity[e] = None
       THEN /\ renderAlive' = renderAlive \cup {nextRender}
            /\ mainEntity' = [mainEntity EXCEPT ![nextRender] = e]
            /\ nextRender' = nextRender + 1
            /\ applied' = Outcome(Added(e), "spawned")
            /\ created' = [created EXCEPT ![e] = @ + 1]
            /\ UNCHANGED <<renderEntity, fly, parent>>
       ELSE /\ applied' = Outcome(Added(e),
                            IF e \in mainAlive THEN "occupied" ELSE "missing")
            /\ UNCHANGED <<renderEntity, created>>
            /\ UNCHANGED renderVars

\* EntityRecord::Added(e): get_entity_mut(e), then entry::<RenderEntity>():
\* Occupied does nothing, Vacant spawns MainEntity(e) in the render world
\* and inserts RenderEntity(id).
ApplyAdded(e) ==
    /\ pc' = "apply"
    /\ IF e \in mainAlive /\ renderEntity[e] = None
       THEN /\ renderAlive' = renderAlive \cup {nextRender}
            /\ mainEntity' = [mainEntity EXCEPT ![nextRender] = e]
            /\ nextRender' = nextRender + 1
            /\ renderEntity' = [renderEntity EXCEPT ![e] = nextRender]
            /\ applied' = Outcome(Added(e), "spawned")
            /\ created' = [created EXCEPT ![e] = @ + 1]
            /\ UNCHANGED <<fly, parent>>
       ELSE /\ applied' = Outcome(Added(e),
                            IF e \in mainAlive THEN "occupied" ELSE "missing")
            /\ UNCHANGED <<renderEntity, created>>
            /\ UNCHANGED renderVars

\* Mutant of ApplyRemoved: render_world.entity_mut(e) instead of
\* get_entity_mut(e), which panics when the entity is gone.
ApplyRemovedUnwrap(s) ==
    /\ UNCHANGED <<renderEntity, created>>
    /\ IF s \in renderAlive
       THEN /\ pc' = "apply"
            /\ renderAlive' = renderAlive \ Descendants(s)
            /\ mainEntity' = Cleared(mainEntity, Descendants(s))
            /\ parent' = Cleared(parent, Descendants(s))
            /\ fly' = fly \ Descendants(s)
            /\ applied' = Outcome(Removed(s), "despawned")
            /\ UNCHANGED nextRender
       ELSE /\ pc' = "panic"
            /\ UNCHANGED applied
            /\ UNCHANGED renderVars

\* EntityRecord::Removed(e): render_world.get_entity_mut(e), then
\* despawn_recursive(); nothing when the entity is gone.
ApplyRemoved(s) ==
    /\ pc' = "apply"
    /\ UNCHANGED <<renderEntity, created>>
    /\ IF s \in renderAlive
       THEN /\ renderAlive' = renderAlive \ Descendants(s)
            /\ mainEntity' = Cleared(mainEntity, Descendants(s))
            /\ parent' = Cleared(parent, Descendants(s))
            /\ fly' = fly \ Descendants(s)
            /\ applied' = Outcome(Removed(s), "despawned")
            /\ UNCHANGED nextRender
       ELSE /\ applied' = Outcome(Removed(s), "gone")
            /\ UNCHANGED renderVars

SyncStep ==
    /\ pc = "apply"
    /\ drain # <<>>
    /\ LET n == DrainNext(drain)
       IN /\ drain' = n.rest
          /\ IF n.rec.kind = "Added"
             THEN ApplyAdded(n.rec.e)
             ELSE ApplyRemoved(n.rec.e)
    /\ UNCHANGED <<mainAlive, nextMain, tagged>>
    /\ UNCHANGED <<pending, pendingPresent, local, snapshot, reaped, hist>>
    /\ UNCHANGED setVars

\* The scope ends: the (now empty) resource goes back into the main world.
SyncEnd ==
    /\ pc = "apply"
    /\ drain = <<>>
    /\ pendingPresent' = TRUE
    /\ pc' = "synced"
    /\ UNCHANGED <<pending, drain, local, snapshot, applied, reaped, created, hist>>
    /\ UNCHANGED mainVars
    /\ UNCHANGED renderVars
    /\ UNCHANGED setVars

----------------------------------------------------------------------------
\* despawn_fly_entity

\* The orders in which query.iter() may yield the entities of S.
Orders(S) ==
    {q \in [1..Cardinality(S) -> S] : \A i, j \in 1..Cardinality(S) :
                                          i # j => q[i] # q[j]}

\* e.index(): ids are allocated by index.
Index(e) == e

RECURSIVE InsertByKey(_, _)
InsertByKey(sorted, x) ==
    IF sorted = <<>> THEN <<x>>
    ELSE IF Index(x) <= Index(Head(sorted)) THEN <<x>> \o sorted
    ELSE <<Head(sorted)>> \o InsertByKey(Tail(sorted), x)

\* local.sort_unstable_by_key(|e| e.index())
RECURSIVE SortByIndex(_)
SortByIndex(q) ==
    IF q = <<>> THEN <<>> ELSE InsertByKey(SortByIndex(Tail(q)), Head(q))

\* local.extend(query.iter()); local.sort_unstable_by_key(..)
ReapBegin ==
    /\ pc = "synced"
    /\ \E order \in Orders(fly) : local' = SortByIndex(local \o order)
    /\ pc' = "reap"
    /\ UNCHANGED <<pending, pendingPresent, drain, snapshot, applied, reaped,
                   created, hist>>
    /\ UNCHANGED mainVars
    /\ UNCHANGED renderVars
    /\ UNCHANGED setVars

\* Mutant of ReapNext: the .rev() is missing.
ReapNextFront(l) == [e |-> Head(l), rest |-> Tail(l)]

\* for e in local.drain(..).rev() { world.despawn(e); }
ReapNext(l) == [e |-> l[Len(l)], rest |-> SubSeq(l, 1, Len(l) - 1)]

\* Mutant of ReapStep: an entity that mirrors a main entity is not despawned.
ReapStepKeepMirrors ==
    /\ pc = "reap"
    /\ local # <<>>
    /\ LET n == ReapNext(local)
           gone == IF mainEntity[n.e] = None THEN {n.e} ELSE {}
       IN /\ local' = n.rest
          /\ reaped' = Append(reaped, n.e)
          /\ renderAlive' = renderAlive \ gone
          /\ mainEntity' = Cleared(mainEntity, gone)
          /\ parent' = Cleared(parent, gone)
          /\ fly' = fly \ gone
    /\ UNCHANGED <<nextRender, pending, pendingPresent, pc, drain, snapshot,
                   applied, created, hist>>
    /\ UNCHANGED mainVars
    /\ UNCHANGED setVars

ReapStep ==
    /\ pc = "reap"
    /\ local # <<>>
    /\ LET n == ReapNext(local)
       IN /\ local' = n.rest
          /\ reaped' = Append(reaped, n.e)
          /\ renderAlive' = renderAlive \ {n.e}
          /\ mainEntity' = Cleared(mainEntity, {n.e})
          /\ parent' = Cleared(parent, {n.e})
          /\ fly' = fly \ {n.e}
    /\ UNCHANGED <<nextRender, pending, pendingPresent, pc, drain, snapshot,
                   applied, created, hist>>
    /\ UNCHANGED mainVars
    /\ UNCHANGED setVars

\* The system returns; the cycle is complete.
ReapEnd ==
    /\ pc = "reap"
    /\ local = <<>>
    /\ pc' = "idle"
    /\ snapshot' = <<>>
    /\ applied' = <<>>
    /\ reaped' = <<>>
    /\ hist' = Logged("Cycle", None)
    /\ UNCHANGED <<pending, pendingPresent, drain, local, created>>
    /\ UNCHANGED mainVars
    /\ UNCHANGED renderVars
    /\ UNCHANGED setVars

----------------------------------------------------------------------------
Next ==
    \/ SpawnMain
    \/ \E e \in MainIds : AttachTag(e)
    \/ \E e \in MainIds : DetachTag(e)
    \/ \E e \in MainIds : DespawnMain(e)
    \/ \E par \in RenderIds \cup {None} : SpawnRender(par)
    \/ \E s \in RenderIds : MarkFly(s)
    \/ \E s \in RenderIds : DirectDespawn(s)
    \/ SyncBegin
    \/ SyncStep
    \/ SyncEnd
    \/ ReapBegin
    \/ ReapStep
    \/ ReapEnd

Spec == Init /\ [][Next]_vars

----------------------------------------------------------------------------
\* Properties.

\* The live render entities mirroring main entity p.
Mirrors(p) == {s \in renderAlive : mainEntity[s] = p}

\* The main ids named by the back links of live render entities.
MirroredPrimaries == {mainEntity[s] : s \in renderAlive} \ {None}

\* The operations so far are exactly h and no system is running.
Ran(h) == pc = "idle" /\ hist = h

\* The operations so far end with h and no system is running.
RanLast(h) ==
    /\ pc = "idle"
    /\ Len(hist) >= Len(h)
    /\ SubSeq(hist, Len(hist) - Len(h) + 1, Len(hist)) = h

\* A cycle has just completed.
AfterCycle == RanLast(<<Op("Cycle", None)>>)

\* Only main-world spawns, tag attach/detach and cycles have happened.
OnlyTagOps ==
    \A i \in 1..Len(hist) : hist[i].op \in {"Spawn", "Attach", "Detach", "Cycle"}

\* The records applied so far in this cycle.
AppliedRecs == [i \in 1..Len(applied) |-> applied[i].rec]

\* This step of entity_sync_system applies record r.
Applies(r) ==
    /\ pc = "apply"
    /\ drain # <<>>
    /\ DrainNext(drain).rec = r

\* C1: after any sequence of tag attach/detach operations followed by one full
\* cycle, the main ids named by the back links of live render entities are
\* exactly the live main entities that carry the tag.
C1_MirrorsEqualTagged ==
    (AfterCycle /\ OnlyTagOps) => MirroredPrimaries = tagged \cap mainAlive

\* C2: E1 tagged then untagged before any cycle: after one cycle no render
\* entity has a back link to E1 and E1 has no forward link.
C2_TagUntagLeavesNothing ==
    \A e \in MainIds :
        Ran(<<Op("Spawn", e), Op("Attach", e), Op("Detach", e), Op("Cycle", None)>>)
            => Mirrors(e) = {} /\ renderEntity[e] = None

\* C3: round trip: tag p, cycle, untag p, cycle leaves the render entity that
\* mirrored p destroyed and no forward link (mapping entry) for p.
C3_RoundTripClearsMapping ==
    \A p \in MainIds :
        Ran(<<Op("Spawn", p), Op("Attach", p), Op("Cycle", None),
              Op("Detach", p), Op("Cycle", None)>>)
            => Mirrors(p) = {} /\ renderEntity[p] = None

\* C4: applying Added(p) for a main entity p that already has a forward link
\* spawns no render entity and leaves the forward link unchanged; and at most
\* one render entity is ever spawned for p, whatever the number of Added(p)
\* records and cycles.
C4_AddedIdempotent ==
    /\ [][\A p \in MainIds :
            (Applies(Added(p)) /\ renderEntity[p] # None)
                => /\ renderAlive' = renderAlive
                   /\ nextRender' = nextRender
                   /\ mainEntity' = mainEntity
                   /\ renderEntity' = renderEntity]_vars
    /\ [](\A p \in MainIds : created[p] <= 1)

\* C4 witness: an Added(p) record met an occupied forward link, after a render
\* entity had been spawned for p.
C4_Witness ==
    \E i \in 1..Len(applied) :
        /\ applied[i].outcome = "occupied"
        /\ created[applied[i].rec.e] = 1

\* C5: spawn E1 and attach the tag: the queue is [Added(E1)]; after one cycle
\* exactly one live render entity has back link E1 and E1's forward link is
\* that entity's id.
C5_SpawnAttachMirrors ==
    \A e \in MainIds :
        /\ Ran(<<Op("Spawn", e), Op("Attach", e)>>) => pending = <<Added(e)>>
        /\ RanLast(<<Op("Spawn", e), Op("Attach", e), Op("Cycle", None)>>)
            => /\ Cardinality(Mirrors(e)) = 1
               /\ renderEntity[e] \in Mirrors(e)

\* C5 witness: the scenario has run and E1 is mirrored.
C5_Witness ==
    /\ Ran(<<Op("Spawn", 1), Op("Attach", 1), Op("Cycle", None)>>)
    /\ renderEntity[1] # None
    /\ Mirrors(1) = {renderEntity[1]}

\* C6: in every reachable state each main entity has at most one live render
\* entity whose back link names it.
C6_AtMostOneMirror ==
    \A p \in MainIds : Cardinality(Mirrors(p)) <= 1

\* C6 witness: two Added(p) records were applied in one cycle and p has one
\* mirror.
C6_Witness ==
    \E p \in MainIds :
        /\ Cardinality({i \in 1..Len(applied) : applied[i].rec = Added(p)}) >= 2
        /\ Cardinality(Mirrors(p)) = 1

\* C7: the forward link of a live main entity is removed in the same
\* entity_sync_system step that despawns the render entity it names, so it
\* never names a despawned render entity after the system has run.
C7_MappingRemovedWithSecondary ==
    [][\A p \in MainIds :
         (/\ pc = "apply"
          /\ p \in mainAlive
          /\ renderEntity[p] \in renderAlive
          /\ renderEntity[p] \notin renderAlive')
             => renderEntity'[p] = None]_vars

\* C8: detaching the tag from a main entity without forward link still
\* appends a Removed record: tag then untag leaves [Added(E1), Removed(..)].
C8_DetachAlwaysRecords ==
    \A e \in MainIds :
        Ran(<<Op("Spawn", e), Op("Attach", e), Op("Detach", e)>>)
            => /\ Len(pending) = 2
               /\ pending[1] = Added(e)
               /\ pending[2].kind = "Removed"

\* C9: applying a Removed record whose render entity is already despawned is
\* a no-op: no fault, nothing despawned, both worlds unchanged, the record
\* consumed.
C9_RemovedGoneIsNoOp ==
    [][\A s \in RenderIds :
         (Applies(Removed(s)) /\ s \notin renderAlive)
             => /\ pc' = "apply"
                /\ Len(drain') = Len(drain) - 1
                /\ UNCHANGED renderVars
                /\ UNCHANGED mainVars
                /\ UNCHANGED pending]_vars

\* C9 witness: a Removed record found its render entity gone.
C9_Witness ==
    \E i \in 1..Len(applied) :
        /\ applied[i].rec.kind = "Removed"
        /\ applied[i].outcome = "gone"

\* C10: within one run of entity_sync_system the records are applied in the
\* order the observers appended them: at every point the records applied so
\* far followed by those still to come are the queue as it was found.
C10_AppliedInCaptureOrder ==
    pc # "idle" => AppliedRecs \o drain = snapshot

\* C10 witness: two different records have been applied in one run.
C10_Witness ==
    /\ pc = "synced"
    /\ Len(applied) >= 2
    /\ applied[1].rec # applied[2].rec

\* The set of elements of a sequence.
Range(q) == {q[i] : i \in 1..Len(q)}

\* C11: when entity_sync_system has returned, PendingSyncEntity is back in
\* the main world and holds no record, whatever it held before and whatever
\* became of each record.
C11_QueueBackAndEmpty ==
    pc = "synced" => pendingPresent /\ pending = <<>>

\* C11 witness: the system has returned after applying records with
\* different outcomes.
C11_Witness ==
    /\ pc = "synced"
    /\ Len(applied) >= 2
    /\ applied[1].outcome # applied[2].outcome

\* C12: despawn_fly_entity despawns the fly entities in strictly descending
\* order of index.
C12_ReapedDescending ==
    \A i, j \in 1..Len(reaped) : i < j => Index(reaped[i]) > Index(reaped[j])

\* C12 witness: the reaper has despawned two entities.
C12_Witness ==
    /\ pc = "reap"
    /\ local = <<>>
    /\ Len(reaped) >= 2

\* C13: when despawn_fly_entity returns, every render entity that carried
\* RenderFlyEntity when it started is despawned, back link or not; its scratch
\* list is empty; and no step of it despawns an entity without the marker.
C13_ReaperDespawnsAllFly ==
    /\ []((pc = "reap" /\ local = <<>>)
            => (fly = {} /\ Range(reaped) \cap renderAlive = {}))
    /\ [](pc = "idle" => local = <<>>)
    /\ [][(pc = "synced" \/ pc = "reap")
            => \A s \in renderAlive \ fly : s \in renderAlive']_vars

\* C13 witness: the reaper has despawned the mirror of a live tagged main
\* entity while an unmarked render entity stays alive.
C13_Witness ==
    /\ pc = "reap"
    /\ local = <<>>
    /\ \E p \in tagged : renderEntity[p] \in Range(reaped)
    /\ renderAlive # {}

\* Added(a) then Added(b) have been applied in one run and each spawned.
BothSpawned(a, b) ==
    /\ pc = "synced"
    /\ applied = <<[rec |-> Added(a), outcome |-> "spawned"],
                   [rec |-> Added(b), outcome |-> "spawned"]>>

\* C14 (as stated): for distinct unlinked main entities a and b, Added(a)
\* then Added(b) yields the same final mapping as Added(b) then Added(a):
\* whatever the order, the mapping is the one the order (lower, higher) gives.
C14_SameMappingEitherOrder ==
    \A a, b \in MainIds :
        BothSpawned(a, b) =>
            LET lo == IF a < b THEN a ELSE b
                hi == IF a < b THEN b ELSE a
            IN /\ renderEntity[lo] = nextRender - 2
               /\ renderEntity[hi] = nextRender - 1

\* C14 (amended): either order mirrors both a and b, each by one fresh render
\* entity its forward link names, and the two fresh ids are the same two in
\* both orders; the ids are handed out in the order of the records.
C14_SameMappingUpToIds ==
    \A a, b \in MainIds :
        BothSpawned(a, b) =>
            /\ renderEntity[a] = nextRender - 2
            /\ renderEntity[b] = nextRender - 1
            /\ Mirrors(a) = {renderEntity[a]}
            /\ Mirrors(b) = {renderEntity[b]}

\* C14 witness: the higher main id was applied first.
C14_Witness ==
    \E a, b \in MainIds : a > b /\ BothSpawned(a, b)

\* C15: applying Added(p) for a main entity p despawned before the cycle
\* spawns nothing, raises no fault and goes on with the remaining records.
C15_AddedMissingIsNoOp ==
    [][\A p \in MainIds :
         (Applies(Added(p)) /\ p \notin mainAlive)
             => /\ pc' = "apply"
                /\ drain' = Tail(drain)
                /\ UNCHANGED renderVars
                /\ UNCHANGED mainVars
                /\ UNCHANGED pending]_vars

\* C15 witness: an Added record found its main entity gone and the next
\* record was applied.
C15_Witness ==
    /\ Len(applied) >= 2
    /\ applied[1].outcome = "missing"
    /\ applied[2].outcome = "spawned"

\* C16: a step in which an observer runs (the tag set changes) appends at
\* most one record at the end of the queue and changes neither the render
\* world, nor a forward link of a remaining main entity, nor the records
\* already queued.
C16_HooksOnlyAppend ==
    [][(pc = "idle" /\ tagged' # tagged)
         => /\ UNCHANGED renderVars
            /\ \A p \in mainAlive' : renderEntity'[p] = renderEntity[p]
            /\ Len(pending') \in {Len(pending), Len(pending) + 1}
            /\ SubSeq(pending', 1, Len(pending)) = pending]_vars

\* C16 witness: an observer has appended to a queue that held a record.
C16_Witness ==
    /\ pc = "idle"
    /\ Len(pending) >= 2

----------------------------------------------------------------------------
(***************************************************************************)
(* SortedVecSet (crates/bevy_ecs/src/storage/sorted_vec_set.rs): a sorted  *)
(* SmallVec<usize> with in-place union, intersection and difference.       *)
(* Indices of 0-based Rust vectors are kept 0-based; v[k + 1] reads v[k].  *)
(***************************************************************************)
Values == 0..MaxVal

\* Vec<usize> arguments of from_vec.
Vecs == UNION {[1..n -> Values] : n \in 0..MaxVec}

StrictlyAscending(v) == \A k \in 1..(Len(v) - 1) : v[k] < v[k + 1]

\* The values a SortedVecSet passed as `other` can hold.
SortedVecSets ==
    {v \in UNION {[1..n -> Values] : n \in 0..(MaxVal + 1)} : StrictlyAscending(v)}

\* self.0.binary_search(&index) on the range lo..hi: Ok(pos) or Err(pos).
RECURSIVE binary_search(_, _, _, _)
binary_search(v, index, lo, hi) ==
    IF lo >= hi
    THEN [ok |-> FALSE, pos |-> lo]
    ELSE LET mid == (lo + hi) \div 2
         IN IF v[mid + 1] = index THEN [ok |-> TRUE, pos |-> mid]
            ELSE IF v[mid + 1] < index THEN binary_search(v, index, mid + 1, hi)
            ELSE binary_search(v, index, lo, mid)

\* SmallVec::insert(pos, x) and SmallVec::remove(pos)
InsertAt(v, pos, x) == SubSeq(v, 1, pos) \o <<x>> \o SubSeq(v, pos + 1, Len(v))
RemoveAt(v, pos) == SubSeq(v, 1, pos) \o SubSeq(v, pos + 2, Len(v))

\* Mutant of insert: the value is pushed at the end, wherever it belongs.
insert_push(v, index) ==
    LET r == binary_search(v, index, 0, Len(v))
    IN IF r.ok THEN v ELSE Append(v, index)

\* SortedVecSet::insert
insert(v, index) ==
    LET r == binary_search(v, index, 0, Len(v))
    IN IF r.ok THEN v ELSE InsertAt(v, r.pos, index)

\* SortedVecSet::remove
remove(v, index) ==
    LET r == binary_search(v, index, 0, Len(v))
    IN IF r.ok THEN RemoveAt(v, r.pos) ELSE v

\* SortedVecSet::from_vec: for value in vec { sorted_vec.insert(value) }
RECURSIVE FromVecLoop(_, _)
FromVecLoop(sorted_vec, vec) ==
    IF vec = <<>> THEN sorted_vec
    ELSE FromVecLoop(insert(sorted_vec, Head(vec)), Tail(vec))

from_vec(vec) == FromVecLoop(<<>>, vec)

\* while j < other.len() && other.0[j] < *current { j += 1 }
RECURSIVE Advance(_, _, _)
Advance(other, jj, current) ==
    IF jj < Len(other) /\ other[jj + 1] < current
    THEN Advance(other, jj + 1, current)
    ELSE jj

\* difference_with: self.0.retain(closure) from element k on, with the
\* closure's captured j.  The closure returns
\* j < other.len() && !(other.0[j] == *current).
RECURSIVE DifferenceRetain(_, _, _, _)
DifferenceRetain(this, other, k, jj) ==
    IF k >= Len(this) THEN <<>>
    ELSE LET current == this[k + 1]
             j2 == Advance(other, jj, current)
             keep == j2 < Len(other) /\ ~(other[j2 + 1] = current)
         IN (IF keep THEN <<current>> ELSE <<>>)
                \o DifferenceRetain(this, other, k + 1, j2)

difference_with(this, other) == DifferenceRetain(this, other, 0, 0)

\* intersect_with: the closure returns j < other.len() && other.0[j] == *current.
RECURSIVE IntersectRetain(_, _, _, _)
IntersectRetain(this, other, k, jj) ==
    IF k >= Len(this) THEN <<>>
    ELSE LET current == this[k + 1]
             j2 == Advance(other, jj, current)
             keep == j2 < Len(other) /\ other[j2 + 1] = current
         IN (IF keep THEN <<current>> ELSE <<>>)
                \o IntersectRetain(this, other, k + 1, j2)

intersect_with(this, other) == IntersectRetain(this, other, 0, 0)

\* Difference::next from the iterator state (i, j): the item, if any, and the
\* iterator state after the call.
RECURSIVE DifferenceNext(_, _, _, _)
DifferenceNext(this, other, ii, jj) ==
    IF ii < Len(this) /\ jj < Len(other)
    THEN LET val_a == this[ii + 1]
             val_b == other[jj + 1]
         IN IF val_a = val_b THEN DifferenceNext(this, other, ii + 1, jj + 1)
            ELSE IF val_a < val_b
                 THEN [some |-> TRUE, val |-> val_a, i |-> ii + 1, j |-> jj]
            ELSE DifferenceNext(this, other, ii, jj + 1)
    ELSE IF ii < Len(this)
         THEN [some |-> TRUE, val |-> this[ii + 1], i |-> ii + 1, j |-> jj]
    ELSE [some |-> FALSE, val |-> 0, i |-> ii, j |-> jj]

\* The items the iterator yields until None.
RECURSIVE DifferenceCollect(_, _, _, _)
DifferenceCollect(this, other, ii, jj) ==
    LET n == DifferenceNext(this, other, ii, jj)
    IN IF n.some
       THEN <<n.val>> \o DifferenceCollect(this, other, n.i, n.j)
       ELSE <<>>

\* self.difference(other), collected
difference(this, other) == DifferenceCollect(this, other, 0, 0)

----------------------------------------------------------------------------
\* Calls on one SortedVecSet.

\* A method that runs to completion in one step.
Call(name, a, result) ==
    /\ setPc = "ready"
    /\ set' = result
    /\ arg' = a
    /\ method' = name
    /\ before' = set
    /\ UNCHANGED <<iSelf, jOther, setPc>>
    /\ UNCHANGED syncVars

FromVec(vec) == Call("from_vec", vec, from_vec(vec))

Insert(index) == Call("insert", <<index>>, insert(set, index))

Remove(index) == Call("remove", <<index>>, remove(set, index))

\* self.0.clear()
Clear == Call("clear", <<>>, <<>>)

IntersectWith(other) == Call("intersect_with", other, intersect_with(set, other))

DifferenceWith(other) == Call("difference_with", other, difference_with(set, other))

\* union_with is entered: let mut i = 0; let mut j = 0;
UnionWith(other) ==
    /\ setPc = "ready"
    /\ setPc' = "union"
    /\ arg' = other
    /\ method' = "union_with"
    /\ before' = set
    /\ iSelf' = 0
    /\ jOther' = 0
    /\ UNCHANGED set
    /\ UNCHANGED syncVars

\* One iteration of while i < self.len() && j < other.len() { match .. }
UnionLoop ==
    /\ setPc = "union"
    /\ iSelf < Len(set) /\ jOther < Len(arg)
    /\ IF set[iSelf + 1] < arg[jOther + 1]
       THEN /\ iSelf' = iSelf + 1
            /\ UNCHANGED <<set, jOther>>
       ELSE IF set[iSelf + 1] > arg[jOther + 1]
       THEN /\ set' = InsertAt(set, iSelf, arg[jOther + 1])
            /\ jOther' = jOther + 1
            /\ UNCHANGED iSelf
       ELSE /\ iSelf' = iSelf + 1
            /\ jOther' = jOther + 1
            /\ UNCHANGED set
    /\ UNCHANGED <<arg, setPc, method, before>>
    /\ UNCHANGED syncVars

\* The first loop's condition is false.
UnionLoopEnd ==
    /\ setPc = "union"
    /\ ~(iSelf < Len(set) /\ jOther < Len(arg))
    /\ setPc' = "push"
    /\ UNCHANGED <<set, arg, iSelf, jOther, method, before>>
    /\ UNCHANGED syncVars

\* Mutant of UnionPush: j advances but nothing is pushed.
UnionPushSkip ==
    /\ setPc = "push"
    /\ jOther < Len(arg)
    /\ jOther' = jOther + 1
    /\ UNCHANGED <<set, arg, iSelf, setPc, method, before>>
    /\ UNCHANGED syncVars

\* One iteration of while j < other.len() { self.0.push(other.0[j]); j += 1 }
UnionPush ==
    /\ setPc = "push"
    /\ jOther < Len(arg)
    /\ set' = Append(set, arg[jOther + 1])
    /\ jOther' = jOther + 1
    /\ UNCHANGED <<arg, iSelf, setPc, method, before>>
    /\ UNCHANGED syncVars

\* union_with returns; i and j go out of scope.
UnionReturn ==
    /\ setPc = "push"
    /\ ~(jOther < Len(arg))
    /\ setPc' = "ready"
    /\ iSelf' = 0
    /\ jOther' = 0
    /\ UNCHANGED <<set, arg, method, before>>
    /\ UNCHANGED syncVars

NextSet ==
    \/ \E vec \in Vecs : FromVec(vec)
    \/ \E index \in Values : Insert(index)
    \/ \E index \in Values : Remove(index)
    \/ Clear
    \/ \E other \in SortedVecSets : IntersectWith(other)
    \/ \E other \in SortedVecSets : DifferenceWith(other)
    \/ \E other \in SortedVecSets : UnionWith(other)
    \/ UnionLoop
    \/ UnionLoopEnd
    \/ UnionPush
    \/ UnionReturn

\* A call that has been entered keeps running until it returns.
SpecSet ==
    /\ Init
    /\ [][NextSet]_vars
    /\ WF_vars(UnionLoop)
    /\ WF_vars(UnionLoopEnd)
    /\ WF_vars(UnionPush)
    /\ WF_vars(UnionReturn)

Returned(name) == setPc = "ready" /\ method = name

----------------------------------------------------------------------------
\* C17: difference_with(other) leaves self holding exactly the elements of
\* the previous self that are not in other, which is what the
\* difference(other) iterator yields, also when other is empty or is used up
\* before the end of self.
C17_DifferenceWithIsDifference ==
    Returned("difference_with")
        => /\ Range(set) = Range(before) \ Range(arg)
           /\ set = difference(before, arg)

\* C18: between calls of from_vec, insert, remove, clear, union_with,
\* intersect_with and difference_with the stored elements are strictly
\* ascending.
C18_StrictlyAscending == setPc = "ready" => StrictlyAscending(set)

\* from_vec was handed an unsorted vector with a duplicate.
C18_Witness ==
    /\ Returned("from_vec")
    /\ Len(arg) = 3 /\ arg[1] > arg[2] /\ arg[1] = arg[3]
    /\ Len(set) = 2

\* C19: union_with(other) returns, self then holds exactly the union of the
\* previous self and other with each element once, and other is not changed
\* while the call runs.
C19_UnionWithIsUnion ==
    /\ (setPc # "ready") ~> (setPc = "ready")
    /\ [](Returned("union_with")
             => /\ Range(set) = Range(before) \cup Range(arg)
                /\ StrictlyAscending(set))
    /\ [][(setPc # "ready") => arg' = arg]_vars

\* A union whose operands overlap and each hold an element the other lacks.
C19_Witness ==
    /\ Returned("union_with")
    /\ Range(before) \ Range(arg) # {}
    /\ Range(arg) \ Range(before) # {}
    /\ Range(before) \cap Range(arg) # {}
    /\ \E x \in Range(arg) \ Range(before) : \E y \in Range(before) : x < y

====
